---- MODULE Spec2Model ----
(***************************************************************************)
(* A model of ssh_exporter: one /probe request served by probeHandler      *)
(* (src/ssh_exporter.go), the batch dispatcher BatchExecute, the           *)
(* executeScript goroutines, the per-host goroutines they start and the    *)
(* formatter PrometheusFormatResponse (src/util/main.go).                  *)
(*                                                                         *)
(* Spec follows one request step by step.  FormatSpec applies the          *)
(* formatter and ConfigSpec applies ParseConfig to inputs of their own;    *)
(* ServerSpec follows several requests, one call at a time.                *)
(*                                                                         *)
(* Text is a sequence of one-character strings.  Error text is a sequence  *)
(* of tokens, a number being one token.                                    *)
(***************************************************************************)
EXTENDS Integers, Sequences, FiniteSets, TLC

\* ------------------------------------------------------------------ bounds

\* Hosts of a configuration file: 1..MaxHosts.
MaxHosts == 2
\* Remote exit codes that a failed command reports: 1..MaxStatus.
MaxStatus == 2
\* Probe requests the server is sent: 1..MaxRequests.
MaxRequests == 2

\* ------------------------------------------------------------------- text

NL == "\n"
BSLASH == "\\"
NIL == "nil"

\* strings.Replace(input, "\n", "\\n", -1): every newline becomes the two
\* characters backslash and n.
RECURSIVE literalFormat(_)
literalFormat(input) ==
    IF input = <<>> THEN <<>>
    ELSE IF Head(input) = NL
         THEN <<BSLASH, "n">> \o literalFormat(Tail(input))
         ELSE <<Head(input)>> \o literalFormat(Tail(input))

\* ------------------------------------------------------------------ regexp
\* The part of Go's regexp syntax the configurations here use: literal
\* characters, "." (any character but newline), ".*", and the syntax errors
\* of an unclosed "(" and of a "*" with nothing to repeat.

RECURSIVE SyntaxOK(_, _)
SyntaxOK(p, afterAtom) ==
    IF p = <<>> THEN TRUE
    ELSE IF Head(p) = "(" THEN FALSE
    ELSE IF Head(p) = "*" THEN afterAtom /\ SyntaxOK(Tail(p), FALSE)
    ELSE SyntaxOK(Tail(p), TRUE)

RECURSIVE Atoms(_)
Atoms(p) ==
    IF p = <<>> THEN <<>>
    ELSE IF Len(p) >= 2 /\ p[2] = "*"
         THEN <<[c |-> p[1], star |-> TRUE]>> \o Atoms(SubSeq(p, 3, Len(p)))
         ELSE <<[c |-> p[1], star |-> FALSE]>> \o Atoms(Tail(p))

\* regexp.Compile: the compiled program, or NIL with an error.
Compile(p) ==
    IF SyntaxOK(p, FALSE)
    THEN [re |-> Atoms(p), err |-> FALSE]
    ELSE [re |-> NIL, err |-> TRUE]

CharMatches(c, x) == IF c = "." THEN x # NL ELSE x = c

\* The atoms match a prefix of s.
RECURSIVE MatchAt(_, _)
MatchAt(atoms, s) ==
    IF atoms = <<>> THEN TRUE
    ELSE LET a == Head(atoms) IN
         IF a.star
         THEN \E k \in 0..Len(s) :
                 /\ \A m \in 1..k : CharMatches(a.c, s[m])
                 /\ MatchAt(Tail(atoms), SubSeq(s, k + 1, Len(s)))
         ELSE /\ s # <<>>
              /\ CharMatches(a.c, Head(s))
              /\ MatchAt(Tail(atoms), Tail(s))

\* (*Regexp).MatchString of a compiled (non-nil) program: an unanchored search.
MatchString(re, s) ==
    \E i \in 0..Len(s) : MatchAt(re, SubSeq(s, i + 1, Len(s)))

\* ----------------------------------------------------------- configuration

\* time.ParseDuration on the durations used here: decimal digits followed by
\* the unit "s" or "m"; anything else is an error.  The value is in seconds.
Digits == {"0", "1", "2", "3", "4", "5", "6", "7", "8", "9"}
DigitVal(d) ==
    CASE d = "0" -> 0 [] d = "1" -> 1 [] d = "2" -> 2 [] d = "3" -> 3
      [] d = "4" -> 4 [] d = "5" -> 5 [] d = "6" -> 6 [] d = "7" -> 7
      [] d = "8" -> 8 [] d = "9" -> 9

RECURSIVE DecimalValue(_, _)
DecimalValue(ds, acc) ==
    IF ds = <<>> THEN acc
    ELSE DecimalValue(Tail(ds), acc * 10 + DigitVal(Head(ds)))

ParseDuration(t) ==
    IF /\ Len(t) >= 2
       /\ \A i \in 1..(Len(t) - 1) : t[i] \in Digits
       /\ t[Len(t)] \in {"s", "m"}
    THEN [err |-> FALSE,
          d |-> DecimalValue(SubSeq(t, 1, Len(t) - 1), 0)
                  * (IF t[Len(t)] = "m" THEN 60 ELSE 1)]
    ELSE [err |-> TRUE, d |-> 0]

\* A CredentialConfig as yaml.Unmarshal leaves it: the runtime fields zero.
Cred(host, port) ==
    [Host |-> host, Port |-> port, User |-> "user", KeyFile |-> "/key",
     ScriptResult |-> <<>>, ScriptReturnCode |-> 0, ScriptError |-> <<>>,
     ResultPatternMatch |-> 0]

\* A ScriptConfig as yaml.Unmarshal leaves it.
Script(name, timeout, pattern, creds) ==
    [Name |-> name, Script |-> "cmd", Timeout |-> timeout, Pattern |-> pattern,
     Credentials |-> creds, ParsedTimeout |-> 0, Ignored |-> FALSE]

\* The match patterns a script is configured with: a literal, one that
\* matches every text (the empty one too), one that does not compile.
ScriptPatterns == {<<"f">>, <<".", "*">>, <<"(">>}

\* The hosts of a script: the first with no port given.
Creds(name, n) ==
    [k \in 1..n |-> Cred(<<"h">> \o name \o <<ToString(k)>>,
                         IF k = 1 THEN <<>> ELSE <<"2", "2", "2", "2">>)]

\* The configuration files: script "a" alone, or scripts "a" and "b" (whose
\* timeout does not parse), on at most MaxHosts hosts in all.
FileConfigs ==
    {[Version |-> "v0",
      Scripts |-> <<Script(<<"a">>, <<"5", "s">>, pat, Creds(<<"a">>, n))>>]
       : n \in 1..MaxHosts, pat \in ScriptPatterns}
    \cup
    {[Version |-> "v0",
      Scripts |-> <<Script(<<"a">>, <<"5", "s">>, nmp[3], Creds(<<"a">>, nmp[1])),
                    Script(<<"b">>, <<"x">>, <<"f">>, Creds(<<"b">>, nmp[2]))>>]
       : nmp \in {x \in (1..MaxHosts) \X (1..MaxHosts) \X ScriptPatterns :
                    x[1] + x[2] <= MaxHosts}}

\* The values of the pattern query parameter: absent or empty, not a
\* regular expression, the name of script "a", every name.
Queries == {<<>>, <<"(">>, <<"a">>, <<".", "*">>}

\* adjustConfig: port "22" where none is given, the parsed timeout or 10s.
adjustConfigNoDefault(c) ==
    [c EXCEPT !.Scripts =
        [ci \in 1..Len(c.Scripts) |->
            LET v == c.Scripts[ci]
                tmp == ParseDuration(v.Timeout)
            IN [v EXCEPT
                  !.Credentials =
                      [cj \in 1..Len(v.Credentials) |->
                          IF v.Credentials[cj].Port = <<>>
                          THEN [v.Credentials[cj] EXCEPT !.Port = <<"2", "2">>]
                          ELSE v.Credentials[cj]],
                  !.ParsedTimeout = IF ~tmp.err THEN tmp.d ELSE 0]]]
adjustConfig(c) ==
    [c EXCEPT !.Scripts =
        [ci \in 1..Len(c.Scripts) |->
            LET v == c.Scripts[ci]
                tmp == ParseDuration(v.Timeout)
            IN [v EXCEPT
                  !.Credentials =
                      [cj \in 1..Len(v.Credentials) |->
                          IF v.Credentials[cj].Port = <<>>
                          THEN [v.Credentials[cj] EXCEPT !.Port = <<"2", "2">>]
                          ELSE v.Credentials[cj]],
                  !.ParsedTimeout =
                      IF ~tmp.err THEN tmp.d
                      ELSE ParseDuration(<<"1", "0", "s">>).d]]]

\* ParseConfig: the file's document, adjusted.
ParseConfig(file) == adjustConfig(file)

\* ParseQuery: an error when the parameter is absent or empty, else the
\* result of compiling it.
ParseQueryNoEmptyCheck(q) == Compile(q)
ParseQuery(q) ==
    IF q = <<>> THEN [re |-> NIL, err |-> TRUE] ELSE Compile(q)

\* ------------------------------------------------------- the remote command

Lit(w) == [t |-> "lit", v |-> w]
Num(n) == [t |-> "num", v |-> n]

\* What the combined output of a command that exits zero can be.
Outputs == {<<"f">>, <<"o", NL>>}

\* What a host does with one connection attempt: the dial fails, the dial
\* succeeds and the session is refused, the command exits with a non-zero
\* status, the command ends without any exit status, or it exits zero with
\* some output.
Outcomes ==
    {[kind |-> "connfail", status |-> 0, out |-> <<>>],
     [kind |-> "sessfail", status |-> 0, out |-> <<>>],
     [kind |-> "noexit", status |-> 0, out |-> <<>>]}
    \cup {[kind |-> "exit", status |-> n, out |-> <<>>] : n \in 1..MaxStatus}
    \cup {[kind |-> "ok", status |-> 0, out |-> o] : o \in Outputs}

\* fmt.Sprintf("%v", err) of the error the ssh package returns.
ErrorText(o) ==
    CASE o.kind = "connfail" -> <<Lit("dial tcp: connection refused")>>
      [] o.kind = "sessfail" ->
           <<Lit("ssh: rejected: administratively prohibited (open failed)")>>
      [] o.kind = "exit" -> <<Lit("Process exited with status"), Num(o.status)>>
      [] o.kind = "noexit" ->
           <<Lit("wait: remote command exited without exit status or exit signal")>>
      [] OTHER -> <<>>

\* fmt.Sscanf(text, "Process exited with status %d", &errorStatusCode) on a
\* variable that starts 0: the number after the literal text, else still 0.
Sscanf(text) ==
    IF /\ Len(text) >= 2
       /\ text[1] = Lit("Process exited with status")
       /\ text[2].t = "num"
    THEN text[2].v ELSE 0

\* sshConnectToHost: ssh.Dial, then client.NewSession.  It returns the error
\* of either and closes nothing; open is what it has opened and left open.
sshConnectToHost(o) ==
    IF o.kind = "connfail" THEN [err |-> TRUE, open |-> {}]
    ELSE IF o.kind = "sessfail" THEN [err |-> TRUE, open |-> {"client"}]
    ELSE [err |-> FALSE, open |-> {"client", "session"}]

\* executeScriptOnHost: (result, status, err) for what the host does, and
\* what is still open when it returns.  defer client.Close() and defer
\* session.Close() stand after the return statements of the failed command,
\* so only the last return runs them.
executeScriptOnHostRawCode(o) ==
    LET conn == sshConnectToHost(o) IN
    IF conn.err
    THEN [result |-> <<>>, status |-> -1, err |-> TRUE, text |-> ErrorText(o),
          open |-> conn.open]
    ELSE IF o.kind # "ok"
    THEN [result |-> <<>>, status |-> Sscanf(ErrorText(o)), err |-> TRUE,
          text |-> ErrorText(o), open |-> conn.open]
    ELSE [result |-> literalFormat(o.out), status |-> 0, err |-> FALSE,
          text |-> <<>>, open |-> conn.open \ {"client", "session"}]
executeScriptOnHost(o) ==
    LET conn == sshConnectToHost(o) IN
    IF conn.err
    THEN [result |-> <<>>, status |-> -1, err |-> TRUE, text |-> ErrorText(o),
          open |-> conn.open]
    ELSE IF o.kind # "ok"
    THEN LET errorStatusCode == Sscanf(ErrorText(o)) IN
         IF errorStatusCode # 0
         THEN [result |-> <<>>, status |-> errorStatusCode, err |-> TRUE,
               text |-> ErrorText(o), open |-> conn.open]
         ELSE [result |-> <<>>, status |-> -1, err |-> TRUE,
               text |-> ErrorText(o), open |-> conn.open]
    ELSE [result |-> literalFormat(o.out), status |-> 0, err |-> FALSE,
          text |-> <<>>, open |-> conn.open \ {"client", "session"}]

\* ------------------------------------------------------------------- state

VARIABLES
    fileState,  \* the configuration file: "ok", "unreadable" or "malformed"
    fileConf,   \* what yaml.Unmarshal makes of the configuration file
    sharedLoopVar, \* the build: TRUE when a for loop has one variable for all
                \* its iterations (Go before 1.22), FALSE when each iteration
                \* has its own (packages built as Go 1.22 or later)
    query,      \* the request's pattern query parameter
    pc,         \* where probeHandler / BatchExecute stands
    conf,       \* probeHandler's conf, which BatchExecute and the tasks mutate
    bi,         \* BatchExecute's first loop: scripts already passed
    wg,         \* the counter of the WaitGroup done
    pending,    \* the selects BatchExecute's second loop has still to do
    es,         \* per script: its executeScript goroutine, loop variable i
    task,       \* per script and host: the goroutine started for them
    writers,    \* per script and slot: the tasks that wrote a result field
    body,       \* what was written to the response
    crashed,    \* the process died of a panic
    heap,       \* the Config values ParseConfig has built, by address
    req,        \* per probe request: its probeHandler
    rtask,      \* per probe request, script and host: the task started
    access      \* per address: the requests that read or wrote the Config

\* The state of the server as a whole, used where several requests are
\* followed; the other variables follow one request in detail.
srv == <<heap, req, rtask, access>>

vars == <<fileState, fileConf, sharedLoopVar, query, pc, conf, bi, wg, pending, es, task, writers, body,
          crashed, srv>>

\* No request is followed at the level of the whole server.
SrvIdle == heap = <<>> /\ req = <<>> /\ rtask = <<>> /\ access = <<>>

NoRes ==
    [result |-> <<>>, status |-> 0, err |-> FALSE, text |-> <<>>, open |-> {}]
NoOutcome == [kind |-> "none", status |-> 0, out |-> <<>>]

NScripts == Len(fileConf.Scripts)
NHosts(s) == Len(fileConf.Scripts[s].Credentials)
ScriptIds == 1..NScripts
HostIds(s) == 1..NHosts(s)

\* A file that cannot be read has no document; of one that is not YAML
\* yaml.Unmarshal leaves the empty Config.
NoDocument == [Version |-> "", Scripts |-> <<>>]

Init ==
    /\ \/ fileState = "ok" /\ fileConf \in FileConfigs
       \/ fileState \in {"unreadable", "malformed"} /\ fileConf = NoDocument
    /\ sharedLoopVar \in BOOLEAN
    /\ query \in Queries
    /\ pc = "start"
    /\ conf = [Version |-> "", Scripts |-> <<>>]
    /\ bi = 0
    /\ wg = 0
    /\ pending = <<>>
    /\ es = [s \in ScriptIds |-> [pc |-> "none", i |-> 0]]
    /\ task = [s \in ScriptIds |->
                 [k \in HostIds(s) |->
                    [pc |-> "none", c |-> 0, p |-> 0, outcome |-> NoOutcome,
                     r |-> NoRes]]]
    /\ writers = [s \in ScriptIds |-> [k \in HostIds(s) |-> {}]]
    /\ body = <<>>
    /\ crashed = FALSE
    /\ SrvIdle

\* --------------------------------------------------------------- formatter

\* The response is a sequence of pieces: a newline, or the text of one line.
NLT == [k |-> "nl"]
HelpText == <<[k |-> "patternHelpText"]>>

ExitStatusHelp(name) ==
    <<[k |-> "help_exit_status", name |-> name], NLT, [k |-> "type_gauge"]>>
PatternMatchHelp(name) ==
    <<[k |-> "help_pattern_match", name |-> name], NLT, [k |-> "type_gauge"]>>
ExitStatusLine(i, j) ==
    [k |-> "exit_status", name |-> i.Name, host |-> j.Host, user |-> j.User,
     script |-> i.Script, exit_status |-> j.ScriptReturnCode,
     value |-> j.ScriptReturnCode]
PatternMatchLine(i, j) ==
    [k |-> "pattern_match", name |-> i.Name, host |-> j.Host, user |-> j.User,
     script |-> i.Script, regex |-> i.Pattern, value |-> j.ResultPatternMatch]

RECURSIVE HostLines(_, _, _)
HostLines(i, n, exit) ==
    IF n > Len(i.Credentials) THEN <<>>
    ELSE <<NLT, IF exit THEN ExitStatusLine(i, i.Credentials[n])
                ELSE PatternMatchLine(i, i.Credentials[n])>>
         \o HostLines(i, n + 1, exit)

ScriptBlockBlankLine(i) ==
    ExitStatusHelp(i.Name) \o HostLines(i, 1, TRUE)
    \o <<NLT>> \o PatternMatchHelp(i.Name) \o HostLines(i, 1, FALSE)
    \o <<NLT, NLT>>
ScriptBlock(i) ==
    ExitStatusHelp(i.Name) \o HostLines(i, 1, TRUE)
    \o <<NLT>> \o PatternMatchHelp(i.Name) \o HostLines(i, 1, FALSE)
    \o <<NLT>>

RECURSIVE FormatFromAll(_, _)
FormatFromAll(c, n) ==
    IF n > Len(c.Scripts) THEN <<>>
    ELSE ScriptBlock(c.Scripts[n]) \o FormatFromAll(c, n + 1)
RECURSIVE FormatFrom(_, _)
FormatFrom(c, n) ==
    IF n > Len(c.Scripts) THEN <<>>
    ELSE (IF c.Scripts[n].Ignored # TRUE THEN ScriptBlock(c.Scripts[n]) ELSE <<>>)
         \o FormatFrom(c, n + 1)

PrometheusFormatResponse(c) == FormatFrom(c, 1)

\* ------------------------------------------------- probeHandler, BatchExecute
\* Every step is one of the running process: a process that died of a panic
\* takes none.

\* The selects of BatchExecute's second loop in order: one per host of every
\* script that is not ignored, each under that script's timeout.
RECURSIVE SelectPlan(_, _)
SelectPlan(c, n) ==
    IF n > Len(c.Scripts) THEN <<>>
    ELSE (IF ~c.Scripts[n].Ignored
          THEN [j \in 1..Len(c.Scripts[n].Credentials) |-> n]
          ELSE <<>>)
         \o SelectPlan(c, n + 1)

AfterSelect(rest) == IF rest = <<>> THEN "format" ELSE "select"

\* p.MatchString(v.Name) != true
NameIgnoredNever(p, name) == FALSE
NameIgnored(p, name) == MatchString(p, name) # TRUE

\* conf, err := util.ParseConfig(configPath).  ParseConfig ends the process
\* (FatalCheck, log.Fatal) when the file cannot be read; an error of
\* yaml.Unmarshal is logged and the handler goes on.
HandlerParseConfig ==
    /\ ~crashed
    /\ pc = "start"
    /\ IF fileState = "unreadable"
       THEN /\ pc' = "exit"
            /\ conf' = conf
       ELSE /\ conf' = ParseConfig(fileConf)
            /\ pc' = "query"
    /\ UNCHANGED <<srv, fileState, fileConf, sharedLoopVar, query, bi, wg, pending, es, task,
                   writers, body, crashed>>

\* pattern, err := util.ParseQuery(w, r): the help text, or BatchExecute.
HandlerParseQuery ==
    /\ ~crashed
    /\ pc = "query"
    /\ IF ParseQuery(query).err
       THEN /\ body' = HelpText
            /\ pc' = "done"
       ELSE /\ body' = body
            /\ pc' = IF Len(conf.Scripts) = 0 THEN "wait" ELSE "filter"
    /\ UNCHANGED <<srv, fileState, fileConf, sharedLoopVar, query, conf, bi, wg, pending, es, task, writers,
                   crashed>>

\* One iteration of BatchExecute's first loop: the script is ignored, or its
\* executeScript goroutine is started.
BatchFilter ==
    /\ ~crashed
    /\ pc = "filter"
    /\ bi < Len(conf.Scripts)
    /\ LET i == bi + 1
           v == conf.Scripts[i]
       IN IF NameIgnored(ParseQuery(query).re, v.Name)
          THEN /\ conf' = [conf EXCEPT !.Scripts[i].Ignored = TRUE]
               /\ es' = es
          ELSE /\ conf' = conf
               /\ es' = [es EXCEPT ![i].pc =
                            IF Len(v.Credentials) = 0 THEN "ended" ELSE "running"]
    /\ bi' = bi + 1
    /\ pc' = IF bi + 1 = Len(conf.Scripts) THEN "wait" ELSE "filter"
    /\ UNCHANGED <<srv, fileState, fileConf, sharedLoopVar, query, wg, pending, task, writers, body, crashed>>

\* done.Wait() returns: the counter is zero.
BatchWait ==
    /\ ~crashed
    /\ pc = "wait"
    /\ wg = 0
    /\ pending' = SelectPlan(conf, 1)
    /\ pc' = AfterSelect(SelectPlan(conf, 1))
    /\ UNCHANGED <<srv, fileState, fileConf, sharedLoopVar, query, conf, bi, wg, es, task, writers, body,
                   crashed>>

Sending(s, k) == task[s][k].pc = "l296"

\* case <-t: the send of one task is received.
BatchSelectRecv(s, k) ==
    /\ ~crashed
    /\ pc = "select"
    /\ Sending(s, k)
    /\ task' = [task EXCEPT ![s][k].pc = "l298"]
    /\ pending' = Tail(pending)
    /\ pc' = AfterSelect(Tail(pending))
    /\ UNCHANGED <<srv, fileState, fileConf, sharedLoopVar, query, conf, bi, wg, es, writers, body, crashed>>

\* case <-time.After(v.ParsedTimeout): no task was ready to send in time.
BatchSelectTimeout ==
    /\ ~crashed
    /\ pc = "select"
    /\ \A s \in ScriptIds : \A k \in HostIds(s) : ~Sending(s, k)
    /\ pending' = Tail(pending)
    /\ pc' = AfterSelect(Tail(pending))
    /\ UNCHANGED <<srv, fileState, fileConf, sharedLoopVar, query, conf, bi, wg, es, task, writers, body,
                   crashed>>

\* response, _ := util.PrometheusFormatResponse(conf); fmt.Fprintf(w, response)
HandlerFormat ==
    /\ ~crashed
    /\ pc = "format"
    /\ body' = PrometheusFormatResponse(conf)
    /\ pc' = "done"
    /\ UNCHANGED <<srv, fileState, fileConf, sharedLoopVar, query, conf, bi, wg, pending, es, task, writers,
                   crashed>>

\* ------------------------------------------------ executeScript and its tasks

\* The compiled match pattern of script s: match, _ := regexp.Compile(pattern)
Match(s) == Compile(conf.Scripts[s].Pattern)

\* The goroutine that executeScript starts in iteration k is a closure over
\* the loop variables i and c, which it does not take as parameters.  Where
\* the loop has one i and one c for all its iterations, the goroutine reads
\* the value they hold when it reads them: its own index, or that of a later
\* iteration.  Where each iteration has its own, it reads its own index.
LoopVar(s, k) == IF sharedLoopVar THEN es[s].i ELSE k

\* One iteration of executeScript's loop: done.Add(1); go func() {...}()
ExecuteScriptIter(s) ==
    /\ ~crashed
    /\ es[s].pc = "running"
    /\ es[s].i < NHosts(s)
    /\ LET i == es[s].i + 1 IN
         /\ es' = [es EXCEPT ![s].i = i,
                             ![s].pc = IF i = NHosts(s) THEN "ended" ELSE "running"]
         /\ task' = [task EXCEPT ![s][i].pc = "l281"]
    /\ wg' = wg + 1
    /\ UNCHANGED <<srv, fileState, fileConf, sharedLoopVar, query, pc, conf, bi, pending, writers, body,
                   crashed>>

\* The arguments of executeScriptOnHost(c.Host, c.Port, c.User, c.KeyFile,
\* script) are read from the loop variable c one field after the other.
\* This step reads c.Host: the task runs on the host of that index.
TaskReadHost(s, k) ==
    /\ ~crashed
    /\ task[s][k].pc = "l281"
    /\ task' = [task EXCEPT ![s][k].pc = "l281port", ![s][k].c = LoopVar(s, k)]
    /\ UNCHANGED <<srv, fileState, fileConf, sharedLoopVar, query, pc, conf, bi, wg, pending, es, writers,
                   body, crashed>>

\* This step reads c.Port (c.User and c.KeyFile are the same on every host
\* here) and makes the call:
\* result, status, err := executeScriptOnHost(c.Host, c.Port, ...)
TaskRun(s, k) ==
    /\ ~crashed
    /\ task[s][k].pc = "l281port"
    /\ \E o \in Outcomes :
         task' = [task EXCEPT ![s][k] =
                     [pc |-> "l283", c |-> task[s][k].c, p |-> LoopVar(s, k),
                      outcome |-> o, r |-> executeScriptOnHost(o)]]
    /\ UNCHANGED <<srv, fileState, fileConf, sharedLoopVar, query, pc, conf, bi, wg, pending, es, writers,
                   body, crashed>>

\* The same call when the remote command never completes:
\* session.CombinedOutput does not return and the task stays in the call.
TaskRunHangs(s, k) ==
    /\ ~crashed
    /\ task[s][k].pc = "l281port"
    /\ task' = [task EXCEPT ![s][k] =
                  [pc |-> "hung", c |-> task[s][k].c, p |-> LoopVar(s, k),
                   outcome |-> [kind |-> "hang", status |-> 0, out |-> <<>>],
                   r |-> NoRes]]
    /\ UNCHANGED <<srv, fileState, fileConf, sharedLoopVar, query, pc, conf, bi, wg, pending, es, writers,
                   body, crashed>>

\* (*creds)[i].ScriptReturnCode = status
TaskStoreCode(s, k) ==
    /\ ~crashed
    /\ task[s][k].pc = "l283"
    /\ LET i == LoopVar(s, k) IN
         /\ conf' = [conf EXCEPT !.Scripts[s].Credentials[i].ScriptReturnCode =
                                     task[s][k].r.status]
         /\ writers' = [writers EXCEPT ![s][i] = @ \cup {k}]
    /\ task' = [task EXCEPT ![s][k].pc = "l284"]
    /\ UNCHANGED <<srv, fileState, fileConf, sharedLoopVar, query, pc, bi, wg, pending, es, body, crashed>>

\* (*creds)[i].ScriptResult = result
TaskStoreResult(s, k) ==
    /\ ~crashed
    /\ task[s][k].pc = "l284"
    /\ LET i == LoopVar(s, k) IN
         /\ conf' = [conf EXCEPT !.Scripts[s].Credentials[i].ScriptResult =
                                     task[s][k].r.result]
         /\ writers' = [writers EXCEPT ![s][i] = @ \cup {k}]
    /\ task' = [task EXCEPT ![s][k].pc = "l286"]
    /\ UNCHANGED <<srv, fileState, fileConf, sharedLoopVar, query, pc, bi, wg, pending, es, body, crashed>>

\* if err != nil { (*creds)[i].ScriptError = fmt.Sprintf("%v", err) }
TaskStoreError(s, k) ==
    /\ ~crashed
    /\ task[s][k].pc = "l286"
    /\ IF task[s][k].r.err
       THEN LET i == LoopVar(s, k) IN
              /\ conf' = [conf EXCEPT !.Scripts[s].Credentials[i].ScriptError =
                                          task[s][k].r.text]
              /\ writers' = [writers EXCEPT ![s][i] = @ \cup {k}]
       ELSE UNCHANGED <<conf, writers>>
    /\ task' = [task EXCEPT ![s][k].pc = "l290"]
    /\ UNCHANGED <<srv, fileState, fileConf, sharedLoopVar, query, pc, bi, wg, pending, es, body, crashed>>

\* if match.MatchString(result) {...ResultPatternMatch = 1} else {... = 0}
\* A nil match (the pattern did not compile) is dereferenced: a panic in a
\* goroutine, which ends the process.
TaskMatch(s, k) ==
    /\ ~crashed
    /\ task[s][k].pc = "l290"
    /\ IF Match(s).err
       THEN /\ crashed' = TRUE
            /\ UNCHANGED <<conf, writers, task>>
       ELSE /\ LET i == LoopVar(s, k) IN
                 /\ conf' = [conf EXCEPT
                       !.Scripts[s].Credentials[i].ResultPatternMatch =
                           IF MatchString(Match(s).re, task[s][k].r.result)
                           THEN 1 ELSE 0]
                 /\ writers' = [writers EXCEPT ![s][i] = @ \cup {k}]
            /\ task' = [task EXCEPT ![s][k].pc = "l296"]
            /\ crashed' = crashed
    /\ UNCHANGED <<srv, fileState, fileConf, sharedLoopVar, query, pc, bi, wg, pending, es, body>>

\* done.Done(), after the send t <- true was received
TaskDone(s, k) ==
    /\ ~crashed
    /\ task[s][k].pc = "l298"
    /\ task' = [task EXCEPT ![s][k].pc = "end"]
    /\ wg' = wg - 1
    /\ UNCHANGED <<srv, fileState, fileConf, sharedLoopVar, query, pc, conf, bi, pending, es, writers, body,
                   crashed>>

\* ------------------------------------------------------------ specification

Next ==
    \/ HandlerParseConfig
    \/ HandlerParseQuery
    \/ BatchFilter
    \/ BatchWait
    \/ BatchSelectTimeout
    \/ HandlerFormat
    \/ \E s \in ScriptIds : ExecuteScriptIter(s)
    \/ \E s \in ScriptIds : \E k \in HostIds(s) : BatchSelectRecv(s, k)
    \/ \E s \in ScriptIds : \E k \in HostIds(s) : TaskReadHost(s, k)
    \/ \E s \in ScriptIds : \E k \in HostIds(s) : TaskRun(s, k)
    \/ \E s \in ScriptIds : \E k \in HostIds(s) : TaskRunHangs(s, k)
    \/ \E s \in ScriptIds : \E k \in HostIds(s) : TaskStoreCode(s, k)
    \/ \E s \in ScriptIds : \E k \in HostIds(s) : TaskStoreResult(s, k)
    \/ \E s \in ScriptIds : \E k \in HostIds(s) : TaskStoreError(s, k)
    \/ \E s \in ScriptIds : \E k \in HostIds(s) : TaskMatch(s, k)
    \/ \E s \in ScriptIds : \E k \in HostIds(s) : TaskDone(s, k)

Spec == Init /\ [][Next]_vars

\* ------------------------------------------- the formatter on its own
\* PrometheusFormatResponse applied, as the unit test applies it, to
\* configurations whose result fields are filled in.

\* The exit status and match flag a populated slot holds.
SlotResults == {-1, 0, 1} \X {0, 1}

PopulatedCreds(name, n) ==
    {[k \in 1..n |-> [Creds(name, n)[k] EXCEPT
                        !.ScriptReturnCode = f[k][1],
                        !.ResultPatternMatch = f[k][2]]]
       : f \in [1..n -> SlotResults]}

PopulatedScripts(name, maxn) ==
    {[Script(name, <<"5", "s">>, <<"f">>, creds) EXCEPT
         !.ParsedTimeout = 5, !.Ignored = ig]
       : creds \in UNION {PopulatedCreds(name, n) : n \in 0..maxn},
         ig \in BOOLEAN}

\* One script on up to MaxHosts hosts, alone or followed by a second script
\* on at most one host.
FormatConfigs ==
    {[Version |-> "v0", Scripts |-> <<a>>]
       : a \in PopulatedScripts(<<"a">>, MaxHosts)}
    \cup
    {[Version |-> "v0", Scripts |-> <<ab[1], ab[2]>>]
       : ab \in PopulatedScripts(<<"a">>, MaxHosts)
                  \X PopulatedScripts(<<"b">>, 1)}

FormatInit ==
    /\ conf \in FormatConfigs
    /\ fileState = "ok"
    /\ pc = "format"
    /\ fileConf = [Version |-> "v0", Scripts |-> <<>>]
    /\ sharedLoopVar = FALSE
    /\ query = <<".", "*">>
    /\ bi = 0
    /\ wg = 0
    /\ pending = <<>>
    /\ es = <<>>
    /\ task = <<>>
    /\ writers = <<>>
    /\ body = <<>>
    /\ crashed = FALSE
    /\ SrvIdle

FormatNext == HandlerFormat

FormatSpec == FormatInit /\ [][FormatNext]_vars

\* ------------------------------------------ configuration loading on its own
\* ParseConfig applied, as the unit test applies it, to configuration files.

\* Timeout texts: two durations, and three texts that are none (no digits,
\* empty, no unit).
TimeoutTexts == {<<"5", "s">>, <<"2", "m">>, <<"x">>, <<>>, <<"5">>}
PortTexts == {<<>>, <<"2", "2", "2", "2">>}

FileCreds(name, n) ==
    {[k \in 1..n |-> Cred(<<"h">> \o name \o <<ToString(k)>>, f[k])]
       : f \in [1..n -> PortTexts]}

FileScripts(name, maxn) ==
    {Script(name, t, <<"f">>, creds)
       : t \in TimeoutTexts,
         creds \in UNION {FileCreds(name, n) : n \in 0..maxn}}

\* One script on up to MaxHosts hosts, alone or followed by a second script
\* on at most one host.
ConfigFiles ==
    {[Version |-> "v0", Scripts |-> <<a>>] : a \in FileScripts(<<"a">>, MaxHosts)}
    \cup
    {[Version |-> "v0", Scripts |-> <<ab[1], ab[2]>>]
       : ab \in FileScripts(<<"a">>, MaxHosts) \X FileScripts(<<"b">>, 1)}

ConfigInit ==
    /\ fileState = "ok"
    /\ fileConf \in ConfigFiles
    /\ pc = "start"
    /\ conf = [Version |-> "", Scripts |-> <<>>]
    /\ sharedLoopVar = FALSE
    /\ query = <<".", "*">>
    /\ bi = 0
    /\ wg = 0
    /\ pending = <<>>
    /\ es = <<>>
    /\ task = <<>>
    /\ writers = <<>>
    /\ body = <<>>
    /\ crashed = FALSE
    /\ SrvIdle

ConfigNext == HandlerParseConfig

ConfigSpec == ConfigInit /\ [][ConfigNext]_vars

\* ------------------------------------------------- several probe requests
\* net/http runs probeHandler once per request, each call in a goroutine of
\* its own.  What matters here is which Config a step reads or writes, so a
\* Config lives at an address and the steps of a request are followed one
\* call at a time: ParseConfig, ParseQuery, the first loop of BatchExecute,
\* each host's task, the return of BatchExecute, the formatter.

ReqIds == 1..MaxRequests

\* The configuration file of the server: scripts "a" and "b" on one host each.
ServerFile ==
    [Version |-> "v0",
     Scripts |-> <<Script(<<"a">>, <<"5", "s">>, <<"f">>, Creds(<<"a">>, 1)),
                   Script(<<"b">>, <<"5", "s">>, <<"f">>, Creds(<<"b">>, 1))>>]

\* initialConfig := Config{}; yaml.Unmarshal(raw, &initialConfig): every call
\* of ParseConfig builds its Config, and the arrays behind its slices, anew.
SharedConfigAddr(h) == 1
NewConfigAddr(h) == Len(h) + 1

\* The heap with Config c at address a.
StoreConfig(h, a, c) ==
    IF a <= Len(h) THEN [h EXCEPT ![a] = c] ELSE Append(h, c)
\* Request r has read or written the Config at address a.
Touch(acc, a, r) ==
    IF a <= Len(acc) THEN [acc EXCEPT ![a] = @ \cup {r}] ELSE Append(acc, {r})

ServerInit ==
    /\ fileState = "ok"
    /\ fileConf = ServerFile
    /\ sharedLoopVar = FALSE
    /\ heap = <<>>
    /\ access = <<>>
    /\ req = [r \in ReqIds |->
                [pc |-> "idle", query |-> <<>>, conf |-> 0, body |-> <<>>]]
    /\ rtask = [r \in ReqIds |->
                  [s \in ScriptIds |->
                     [k \in HostIds(s) |->
                        [pc |-> "none", outcome |-> NoOutcome, r |-> NoRes]]]]
    /\ query = <<>>
    /\ pc = "start"
    /\ conf = [Version |-> "", Scripts |-> <<>>]
    /\ bi = 0
    /\ wg = 0
    /\ pending = <<>>
    /\ es = <<>>
    /\ task = <<>>
    /\ writers = <<>>
    /\ body = <<>>
    /\ crashed = FALSE

\* The variables that follow one request in detail stay as they are.
OneRequestIdle ==
    UNCHANGED <<fileState, fileConf, sharedLoopVar, query, pc, conf, bi, wg, pending,
                es, task, writers, body, crashed>>

\* A request arrives with some pattern parameter and its probeHandler runs
\* conf, err := util.ParseConfig(configPath)
SrvParseConfig(r) ==
    /\ req[r].pc = "idle"
    /\ \E q \in Queries :
         LET a == NewConfigAddr(heap) IN
           /\ heap' = StoreConfig(heap, a, ParseConfig(fileConf))
           /\ access' = Touch(access, a, r)
           /\ req' = [req EXCEPT ![r].pc = "query", ![r].query = q,
                                 ![r].conf = a]
    /\ UNCHANGED rtask
    /\ OneRequestIdle

\* pattern, err := util.ParseQuery(w, r): the help text, or BatchExecute.
SrvParseQuery(r) ==
    /\ req[r].pc = "query"
    /\ req' = IF ParseQuery(req[r].query).err
              THEN [req EXCEPT ![r].pc = "done", ![r].body = HelpText]
              ELSE [req EXCEPT ![r].pc = "batch"]
    /\ UNCHANGED <<heap, access, rtask>>
    /\ OneRequestIdle

\* The first loop of BatchExecute(&conf, pattern): the scripts whose name
\* does not match are marked in the request's Config, the others started.
SrvBatchFilter(r) ==
    /\ req[r].pc = "batch"
    /\ LET a == req[r].conf
           p == ParseQuery(req[r].query).re
       IN /\ heap' = [heap EXCEPT ![a].Scripts =
                        [s \in 1..Len(heap[a].Scripts) |->
                           IF NameIgnored(p, heap[a].Scripts[s].Name)
                           THEN [heap[a].Scripts[s] EXCEPT !.Ignored = TRUE]
                           ELSE heap[a].Scripts[s]]]
          /\ access' = Touch(access, a, r)
          /\ rtask' = [rtask EXCEPT ![r] =
                        [s \in ScriptIds |->
                           [k \in HostIds(s) |->
                              IF NameIgnored(p, heap[a].Scripts[s].Name)
                              THEN rtask[r][s][k]
                              ELSE [rtask[r][s][k] EXCEPT !.pc = "running"]]]]
    /\ req' = [req EXCEPT ![r].pc = "wait"]
    /\ OneRequestIdle

\* The task of one host: executeScriptOnHost, then the stores through creds,
\* which points into the Config of the request that started the task.
SrvTask(r, s, k) ==
    /\ rtask[r][s][k].pc = "running"
    /\ \E o \in Outcomes :
         LET a == req[r].conf
             res == executeScriptOnHost(o)
             m == Compile(heap[a].Scripts[s].Pattern)
         IN /\ heap' = [heap EXCEPT ![a].Scripts[s].Credentials[k] =
                          [@ EXCEPT
                             !.ScriptReturnCode = res.status,
                             !.ScriptResult = res.result,
                             !.ScriptError = IF res.err THEN res.text ELSE @,
                             !.ResultPatternMatch =
                                 IF MatchString(m.re, res.result) THEN 1 ELSE 0]]
            /\ access' = Touch(access, a, r)
            /\ rtask' = [rtask EXCEPT ![r][s][k] =
                           [pc |-> "stored", outcome |-> o, r |-> res]]
    /\ UNCHANGED req
    /\ OneRequestIdle

\* BatchExecute returns: its tasks have sent, or its selects have timed out.
SrvBatchReturn(r) ==
    /\ req[r].pc = "wait"
    /\ req' = [req EXCEPT ![r].pc = "format"]
    /\ UNCHANGED <<heap, access, rtask>>
    /\ OneRequestIdle

\* response, _ := util.PrometheusFormatResponse(conf); fmt.Fprintf(w, response)
SrvFormat(r) ==
    /\ req[r].pc = "format"
    /\ req' = [req EXCEPT ![r].pc = "done",
                          ![r].body = PrometheusFormatResponse(heap[req[r].conf])]
    /\ access' = Touch(access, req[r].conf, r)
    /\ UNCHANGED <<heap, rtask>>
    /\ OneRequestIdle

ServerNext ==
    \/ \E r \in ReqIds : SrvParseConfig(r)
    \/ \E r \in ReqIds : SrvParseQuery(r)
    \/ \E r \in ReqIds : SrvBatchFilter(r)
    \/ \E r \in ReqIds : \E s \in ScriptIds : \E k \in HostIds(s) : SrvTask(r, s, k)
    \/ \E r \in ReqIds : SrvBatchReturn(r)
    \/ \E r \in ReqIds : SrvFormat(r)

ServerSpec == ServerInit /\ [][ServerNext]_vars

\* --------------------------------------- the filter step on any entry flags
\* Ignored has no yaml tag, so yaml.Unmarshal fills it from the key "ignored"
\* of a script in the file, and BatchExecute is exported and takes whatever
\* Config its caller has.  Here the handler runs up to done.Wait() on files
\* that set the flag.

FlaggedFileConfigs ==
    UNION {{[fc EXCEPT !.Scripts =
               [s \in 1..Len(fc.Scripts) |->
                  [fc.Scripts[s] EXCEPT !.Ignored = f[s]]]]
              : f \in [1..Len(fc.Scripts) -> BOOLEAN]}
             : fc \in FileConfigs}

FilterInit ==
    /\ fileState = "ok"
    /\ fileConf \in FlaggedFileConfigs
    /\ sharedLoopVar = FALSE
    /\ query \in Queries
    /\ pc = "start"
    /\ conf = [Version |-> "", Scripts |-> <<>>]
    /\ bi = 0
    /\ wg = 0
    /\ pending = <<>>
    /\ es = [s \in ScriptIds |-> [pc |-> "none", i |-> 0]]
    /\ task = [s \in ScriptIds |->
                 [k \in HostIds(s) |->
                    [pc |-> "none", c |-> 0, p |-> 0, outcome |-> NoOutcome,
                     r |-> NoRes]]]
    /\ writers = [s \in ScriptIds |-> [k \in HostIds(s) |-> {}]]
    /\ body = <<>>
    /\ crashed = FALSE
    /\ SrvIdle

FilterNext ==
    \/ HandlerParseConfig
    \/ HandlerParseQuery
    \/ BatchFilter

FilterSpec == FilterInit /\ [][FilterNext]_vars

\* ------------------------------------------------------------------ claims

\* The request's pattern compiles and is not empty.
QueryValid == query # <<>> /\ ~Compile(query).err
\* Script s is one the request selects: its name matches the pattern.
NameMatches(s) ==
    QueryValid /\ MatchString(Compile(query).re, fileConf.Scripts[s].Name)
\* BatchExecute has returned.
Returned == pc \in {"format", "done"}
\* The task of host k of script s has stored all its result fields.
Stored(s, k) == task[s][k].pc \in {"l296", "l298", "end"}
\* The result fields of a slot are as yaml.Unmarshal left them.
Untouched(cred) ==
    /\ cred.ScriptResult = <<>>
    /\ cred.ScriptReturnCode = 0
    /\ cred.ScriptError = <<>>
    /\ cred.ResultPatternMatch = 0
\* The names the lines of the response carry.
NamesIn(doc) ==
    {doc[n].name : n \in {m \in 1..Len(doc) : "name" \in DOMAIN doc[m]}}

\* C1: a script whose name the filter pattern does not match gets no
\* executeScript goroutine and no per-host task, its result slots stay as
\* they were loaded, and the rendered document has no line naming it.
C1_UnmatchedScriptUntouched ==
    \A s \in ScriptIds :
        (QueryValid /\ ~NameMatches(s)) =>
            /\ es[s].pc = "none"
            /\ \A k \in HostIds(s) :
                 /\ task[s][k].pc = "none"
                 /\ writers[s][k] = {}
                 /\ pc # "start" => Untouched(conf.Scripts[s].Credentials[k])
            /\ fileConf.Scripts[s].Name \notin NamesIn(body)

\* A request that selects one script and not another has been answered with
\* a document after a task of the selected script ran to its end.
C1_Witness ==
    /\ pc = "done"
    /\ body # <<>>
    /\ \E s \in ScriptIds : QueryValid /\ ~NameMatches(s)
    /\ \E s \in ScriptIds : NameMatches(s) /\ task[s][1].pc = "end"

\* C2: when BatchExecute has returned, every per-host task of every selected
\* script has completed, and each of their slots holds what its own task
\* wrote.
C2_ReturnedImpliesAllStored ==
    Returned =>
        \A s \in ScriptIds : NameMatches(s) =>
            \A k \in HostIds(s) :
                /\ task[s][k].pc \in {"l298", "end"}
                /\ writers[s][k] = {k}

\* C3: the dispatcher is never blocked in done.Wait() while every per-host
\* task of the selected scripts is blocked sending on the channel t.
C3_NoWaitSendDeadlock ==
    ~ /\ pc = "wait"
      /\ wg > 0
      /\ \A s \in ScriptIds : NameMatches(s) =>
            \A k \in HostIds(s) : Sending(s, k)

\* C4: a slot is written only by the task of its own index, and a task that
\* has stored its result has written the slot of its own index.
C4_SlotOwnedByIndex ==
    \A s \in ScriptIds : \A k \in HostIds(s) :
        /\ writers[s][k] \subseteq {k}
        /\ Stored(s, k) => k \in writers[s][k]

\* The host of slot k of script s was run by the task of index k, which alone
\* wrote the slot and has stored all its fields.
OwnRecord(s, k) ==
    /\ Stored(s, k)
    /\ task[s][k].c = k
    /\ writers[s][k] = {k}

\* C5: the result recorded for a host whose connection failed has exit
\* status -1, empty output, non-empty error text and match flag 0, whatever
\* the script's pattern is.
C5_ConnFailRecord ==
    \A s \in ScriptIds : \A k \in HostIds(s) :
        (OwnRecord(s, k) /\ task[s][k].outcome.kind = "connfail") =>
            LET cred == conf.Scripts[s].Credentials[k] IN
              /\ cred.ScriptReturnCode = -1
              /\ cred.ScriptResult = <<>>
              /\ cred.ScriptError # <<>>
              /\ cred.ResultPatternMatch = 0

\* C6: a selected script whose match pattern does not compile does not crash
\* the process; its hosts get match flag 0 with their exit status recorded.
C6_BadPatternNoCrash ==
    \A s \in ScriptIds :
        (NameMatches(s) /\ Compile(fileConf.Scripts[s].Pattern).err) =>
            /\ ~crashed
            /\ \A k \in HostIds(s) :
                 OwnRecord(s, k) =>
                    /\ conf.Scripts[s].Credentials[k].ResultPatternMatch = 0
                    /\ conf.Scripts[s].Credentials[k].ScriptReturnCode =
                           task[s][k].r.status

\* C7: a task whose host failed (no connection, or a non-zero exit) writes
\* only the slot of the host it ran on.
C7_FailureInOwnSlot ==
    \A s \in ScriptIds : \A j \in HostIds(s) : \A k \in writers[s][j] :
        task[s][k].outcome.kind \in {"connfail", "exit", "noexit"} =>
            j = task[s][k].c

\* C8: a request whose pattern parameter is absent, empty or no regular
\* expression never enters BatchExecute: no script is tested or marked, no
\* goroutine is started, and the answer is the help text.
C8_BadQueryNoExecution ==
    (query = <<>> \/ Compile(query).err) =>
        /\ pc \in {"start", "query", "done", "exit"}
        /\ bi = 0 /\ wg = 0 /\ pending = <<>>
        /\ \A s \in ScriptIds :
             /\ es[s].pc = "none"
             /\ pc \notin {"start", "exit"} => ~conf.Scripts[s].Ignored
             /\ \A k \in HostIds(s) : task[s][k].pc = "none"
        /\ pc = "done" => body = HelpText

\* A request with a pattern that is no regular expression has been answered.
C8_Witness == pc = "done" /\ query # <<>> /\ Compile(query).err

\* C9: the slot of a host whose command exited zero holds exit status 0, no
\* error text, the output with every newline replaced by backslash n, and
\* match flag 1 exactly when the script's pattern matches that escaped output.
C9_SuccessRecord ==
    \A s \in ScriptIds : \A k \in HostIds(s) :
        \A t \in HostIds(s) :
            (Stored(s, t) /\ task[s][t].c = k /\ task[s][t].outcome.kind = "ok"
               /\ \A u \in HostIds(s) : (u # t /\ task[s][u].c = k) => ~Stored(s, u))
            =>
            LET cred == conf.Scripts[s].Credentials[k]
                escaped == literalFormat(task[s][t].outcome.out)
            IN /\ cred.ScriptReturnCode = 0
               /\ cred.ScriptError = <<>>
               /\ cred.ScriptResult = escaped
               /\ cred.ResultPatternMatch =
                      IF /\ ~Compile(fileConf.Scripts[s].Pattern).err
                         /\ MatchString(Compile(fileConf.Scripts[s].Pattern).re,
                                        escaped)
                      THEN 1 ELSE 0

\* C10: when the command fails after a successful connection, the exit
\* status executeScriptOnHost returns is the code the failure detail carries,
\* or -1 when it carries none; it is never 0, and the output is empty.
C10_FailedCommandStatus ==
    \A s \in ScriptIds : \A k \in HostIds(s) :
        LET o == task[s][k].outcome
            r == task[s][k].r
        IN o.kind \in {"exit", "noexit"} =>
              /\ r.status = (IF o.kind = "exit" THEN o.status ELSE -1)
              /\ r.status # 0
              /\ r.result = <<>>
              /\ r.err

\* Tasks have got both kinds of command failure back from their hosts.
C10_Witness ==
    /\ \E s \in ScriptIds : \E k \in HostIds(s) :
          task[s][k].outcome.kind = "exit" /\ task[s][k].r.status >= 1
    /\ \E s \in ScriptIds : \E k \in HostIds(s) :
          task[s][k].outcome.kind = "noexit" /\ task[s][k].r.status = -1

\* Every host of every selected script has produced its outcome, to the task
\* of its own index.
EveryHostAnswered ==
    \A s \in ScriptIds : NameMatches(s) =>
        \A k \in HostIds(s) :
            task[s][k].c = k /\ task[s][k].outcome.kind \notin {"none", "hang"}

\* The slot of host k of script s holding that host's own result.
OwnResultCred(s, k) ==
    LET r == task[s][k].r
        m == Compile(fileConf.Scripts[s].Pattern)
    IN [ParseConfig(fileConf).Scripts[s].Credentials[k] EXCEPT
          !.ScriptReturnCode = r.status,
          !.ScriptResult = r.result,
          !.ScriptError = r.text,
          !.ResultPatternMatch =
              IF ~m.err /\ MatchString(m.re, r.result) THEN 1 ELSE 0]

\* The configuration with the unselected scripts ignored and every host of a
\* selected script showing its own result.
OwnResultConfig ==
    [ParseConfig(fileConf) EXCEPT !.Scripts =
        [s \in ScriptIds |->
            IF NameMatches(s)
            THEN [ParseConfig(fileConf).Scripts[s] EXCEPT !.Credentials =
                     [k \in HostIds(s) |-> OwnResultCred(s, k)]]
            ELSE [ParseConfig(fileConf).Scripts[s] EXCEPT !.Ignored = TRUE]]]

\* C11: the document a request is answered with is determined by the
\* configuration order and each host's own outcome: whatever the order in
\* which the tasks ran, it is the rendering of the configuration in which
\* every host of a selected script shows its own result.
C11_DocumentFromOwnOutcomes ==
    (pc = "done" /\ QueryValid /\ EveryHostAnswered) =>
        body = PrometheusFormatResponse(OwnResultConfig)

\* The pieces of a document that are lines of text, in order.
TextLines(doc) == SelectSeq(doc, LAMBDA x : x.k # "nl")

\* Every line of a document is ended by one newline: a text piece and a
\* newline piece alternate.
LinesEnded(doc) ==
    /\ Len(doc) % 2 = 0
    /\ \A n \in 1..Len(doc) : (doc[n].k = "nl") <=> (n % 2 = 0)

\* The 4 + 2n lines of a script with n hosts.
ExpectedBlockLines(i) ==
    LET n == Len(i.Credentials)
        gauge == [k |-> "type_gauge"]
    IN [m \in 1..(4 + 2 * n) |->
          IF m = 1 THEN [k |-> "help_exit_status", name |-> i.Name]
          ELSE IF m = 2 THEN gauge
          ELSE IF m <= 2 + n THEN
               [k |-> "exit_status", name |-> i.Name,
                host |-> i.Credentials[m - 2].Host,
                user |-> i.Credentials[m - 2].User, script |-> i.Script,
                exit_status |-> i.Credentials[m - 2].ScriptReturnCode,
                value |-> i.Credentials[m - 2].ScriptReturnCode]
          ELSE IF m = 3 + n THEN [k |-> "help_pattern_match", name |-> i.Name]
          ELSE IF m = 4 + n THEN gauge
          ELSE [k |-> "pattern_match", name |-> i.Name,
                host |-> i.Credentials[m - 4 - n].Host,
                user |-> i.Credentials[m - 4 - n].User, script |-> i.Script,
                regex |-> i.Pattern,
                value |-> i.Credentials[m - 4 - n].ResultPatternMatch]]

\* The lines of the scripts n.. of a configuration that are not ignored.
RECURSIVE ExpectedLines(_, _)
ExpectedLines(c, n) ==
    IF n > Len(c.Scripts) THEN <<>>
    ELSE (IF c.Scripts[n].Ignored THEN <<>>
          ELSE ExpectedBlockLines(c.Scripts[n]))
         \o ExpectedLines(c, n + 1)

\* C12: the rendered document consists, for each script that is not ignored
\* and in configuration order, of the exit-status HELP and TYPE lines, one
\* exit-status line per host in host order with the host's return code as
\* label and value, the pattern-match HELP and TYPE lines and one
\* pattern-match line per host with its match flag: 4 + 2n lines for n hosts,
\* none for an ignored script.
C12_DocumentLayout ==
    pc = "done" =>
        /\ LinesEnded(body)
        /\ TextLines(body) = ExpectedLines(conf, 1)

\* A configuration with an ignored script after one on two hosts that is not
\* ignored has been rendered.
C12_Witness ==
    /\ pc = "done"
    /\ Len(conf.Scripts) = 2
    /\ ~conf.Scripts[1].Ignored /\ conf.Scripts[2].Ignored
    /\ Len(conf.Scripts[1].Credentials) = 2
    /\ Len(conf.Scripts[2].Credentials) = 1
    /\ Len(TextLines(body)) = 8

\* Line n of the document is the last line of a script's block: the next
\* line, if there is one, is an exit-status HELP line.
LastOfBlock(doc, n) ==
    /\ doc[n].k # "nl"
    /\ \A m \in (n + 1)..Len(doc) :
          (doc[m].k # "nl" /\ \A j \in (n + 1)..(m - 1) : doc[j].k = "nl")
             => doc[m].k = "help_exit_status"

\* C13 as stated: an empty line follows the block of every script that is
\* rendered, between it and the next block and after the last block.
C13_BlankLineAfterBlock ==
    pc = "done" =>
        \A n \in 1..Len(body) :
            LastOfBlock(body, n) =>
                /\ n + 2 <= Len(body)
                /\ body[n + 1].k = "nl"
                /\ body[n + 2].k = "nl"

\* C13 amended: one newline ends the block of every script that is rendered.
\* The last line of a block is followed by its newline and then directly by
\* the first header line of the next block or by the end of the document;
\* the document has no empty line.
C13_SingleNewlineAfterBlock ==
    pc = "done" =>
        /\ \A n \in 1..Len(body) :
              LastOfBlock(body, n) =>
                 /\ n + 1 <= Len(body)
                 /\ body[n + 1].k = "nl"
                 /\ n + 2 <= Len(body) => body[n + 2].k = "help_exit_status"
        /\ \A n \in 1..Len(body) :
              body[n].k = "nl" => (n > 1 /\ body[n - 1].k # "nl")

\* Two scripts, neither ignored, have been rendered.
C13_Witness ==
    /\ pc = "done"
    /\ Len(conf.Scripts) = 2
    /\ ~conf.Scripts[1].Ignored /\ ~conf.Scripts[2].Ignored
    /\ Len(TextLines(body)) >= 8

\* The port a host is to be reached on: the configured one, "22" if none.
ExpectedPort(port) == IF port = <<>> THEN <<"2", "2">> ELSE port

\* The loaded configuration is the file's with the empty ports set to "22":
\* every other field the user supplies is as in the file.
NormalizedAsFile ==
    /\ Len(conf.Scripts) = Len(fileConf.Scripts)
    /\ \A s \in 1..Len(fileConf.Scripts) :
         LET f == fileConf.Scripts[s]
             v == conf.Scripts[s]
         IN /\ v.Name = f.Name /\ v.Script = f.Script
            /\ v.Timeout = f.Timeout /\ v.Pattern = f.Pattern
            /\ Len(v.Credentials) = Len(f.Credentials)
            /\ \A k \in 1..Len(f.Credentials) :
                 /\ v.Credentials[k].Port = ExpectedPort(f.Credentials[k].Port)
                 /\ v.Credentials[k].Host = f.Credentials[k].Host
                 /\ v.Credentials[k].User = f.Credentials[k].User
                 /\ v.Credentials[k].KeyFile = f.Credentials[k].KeyFile

\* C15: normalization sets a port to "22" exactly when none is configured
\* and changes no other field the user supplies, and a task connects to its
\* host on that host's normalized port.
C15_PortDefaulted ==
    /\ pc # "start" => NormalizedAsFile
    /\ \A s \in ScriptIds : \A k \in HostIds(s) :
         task[s][k].outcome.kind # "none" =>
            conf.Scripts[s].Credentials[task[s][k].p].Port =
                ExpectedPort(fileConf.Scripts[s].Credentials[task[s][k].c].Port)

\* The duration of a timeout text in seconds: 5 for "5s", 120 for "2m", and
\* the default of 10 for a text that is no duration.
ExpectedTimeout(t) ==
    CASE t = <<"5", "s">> -> 5
      [] t = <<"2", "m">> -> 120
      [] OTHER -> 10

\* C16: normalization does not stop at a timeout text that is no duration:
\* the loaded configuration has every script of the file, each with the
\* parsed duration of its timeout text or 10 seconds if it has none, and
\* the handler goes on with it.
C16_TimeoutFallback ==
    pc # "start" =>
        /\ pc = "query"
        /\ Len(conf.Scripts) = Len(fileConf.Scripts)
        /\ \A s \in 1..Len(fileConf.Scripts) :
              conf.Scripts[s].ParsedTimeout =
                  ExpectedTimeout(fileConf.Scripts[s].Timeout)

\* A file whose first script has a timeout text that is no duration and whose
\* second has one of two minutes has been loaded.
C16_Witness ==
    /\ pc = "query"
    /\ Len(fileConf.Scripts) = 2
    /\ fileConf.Scripts[1].Timeout = <<"x">>
    /\ fileConf.Scripts[2].Timeout = <<"2", "m">>
    /\ conf.Scripts[1].ParsedTimeout = 10
    /\ conf.Scripts[2].ParsedTimeout = 120

\* The pattern of request r compiles and is not empty.
ReqQueryValid(r) == req[r].query # <<>> /\ ~Compile(req[r].query).err
\* The names of the scripts request r selects.
ReqSelectedNames(r) ==
    {fileConf.Scripts[s].Name : s \in {x \in ScriptIds :
        MatchString(Compile(req[r].query).re, fileConf.Scripts[x].Name)}}

\* The document of request r comes from its own pattern and its own hosts'
\* outcomes: the help text for a bad pattern, else blocks for exactly the
\* scripts its pattern selects, each value being the zero of a slot not yet
\* written or what the request's own task of that host got and stored.
DocOfOwnRequest(r) ==
    IF ~ReqQueryValid(r) THEN req[r].body = HelpText
    ELSE /\ NamesIn(req[r].body) = ReqSelectedNames(r)
         /\ \A n \in 1..Len(req[r].body) : \A s \in ScriptIds :
              LET line == req[r].body[n]
                  own == rtask[r][s][1]
                  m == Compile(fileConf.Scripts[s].Pattern)
              IN (line.k \in {"exit_status", "pattern_match"}
                    /\ line.name = fileConf.Scripts[s].Name) =>
                 IF line.k = "exit_status"
                 THEN \/ line.value = 0
                      \/ own.pc = "stored" /\ line.value = own.r.status
                 ELSE \/ line.value = 0
                      \/ /\ own.pc = "stored"
                         /\ line.value = 1
                         /\ MatchString(m.re, own.r.result)

\* C17: every probe request works on a Config of its own: no Config is read
\* or written by two requests, no two requests hold the same Config, and the
\* document of a request comes from its own pattern and host outcomes,
\* whatever other requests run before it or beside it.
C17_RequestOwnsConfig ==
    /\ \A a \in 1..Len(access) : Cardinality(access[a]) <= 1
    /\ \A r1 \in ReqIds : \A r2 \in ReqIds :
          (r1 # r2 /\ req[r1].conf # 0) => req[r1].conf # req[r2].conf
    /\ \A r \in ReqIds : req[r].pc = "done" => DocOfOwnRequest(r)

\* Two requests with different patterns have been answered, each after its
\* task of the first script stored a result, and the two results differ.
C17_Witness ==
    /\ \A r \in ReqIds : req[r].pc = "done"
    /\ req[1].query = <<"a">> /\ req[2].query = <<".", "*">>
    /\ rtask[1][1][1].pc = "stored" /\ rtask[2][1][1].pc = "stored"
    /\ rtask[1][1][1].r.status # rtask[2][1][1].r.status
    /\ req[1].body # req[2].body
    /\ Len(heap) = 2

\* C18: once executeScriptOnHost has returned, whatever it or
\* sshConnectToHost opened is closed: after success, after a failed command
\* and after a refused session on a dialed client.
C18_NothingLeftOpen ==
    \A s \in ScriptIds : \A k \in HostIds(s) :
        task[s][k].pc \in {"l283", "l284", "l286", "l290", "l296", "l298", "end"}
            => task[s][k].r.open = {}

\* C19: the dispatcher does not wait for a host without bound. While
\* BatchExecute has not returned some step of the process can be taken,
\* even with a remote command that never completes: the dispatcher is never
\* left waiting with every goroutine blocked for good.
C19_DispatcherNotStuck ==
    (pc \in {"wait", "select"} /\ ~crashed) => ENABLED Next

\* The server process has ended: by log.Fatal or by a panic.
Terminated == pc = "exit" \/ crashed

\* C20: the server process ends only when the configuration file cannot be
\* read; with a file that is malformed, a bad filter or script pattern, a
\* failed connection or a failed command it keeps running.
C20_OnlyUnreadableFileFatal ==
    Terminated => fileState = "unreadable"

\* C21: the dispatcher waits on a counter that already counts every task:
\* whenever it stands at done.Wait() and the counter is zero, the goroutine
\* of every selected script has done its done.Add(1) for every host.
C21_CountedBeforeWait ==
    (pc = "wait" /\ wg = 0) =>
        \A s \in ScriptIds : NameMatches(s) => es[s].i = NHosts(s)

\* C22: the selects after done.Wait() find a completion signal waiting:
\* whenever the dispatcher stands at a select, a task is already sending, so
\* that neither the timeout branch is taken nor a running task waited for.
C22_SelectFindsSignal ==
    pc = "select" => \E s \in ScriptIds : \E k \in HostIds(s) : Sending(s, k)

\* C23: when the first loop of BatchExecute is through, the Ignored flag of
\* every script is the negation of the match of its name against the filter
\* pattern, whatever the flag was on entry.
C23_FlagEqualsMatch ==
    (pc = "wait" /\ QueryValid) =>
        \A s \in ScriptIds :
            conf.Scripts[s].Ignored =
                ~MatchString(Compile(query).re, fileConf.Scripts[s].Name)

\* C24: no task is left blocked on its send t <- true once BatchExecute has
\* returned (nothing receives from t after that), so every task whose
\* command finished reaches done.Done().
C24_NoSenderLeftBehind ==
    Returned => \A s \in ScriptIds : \A k \in HostIds(s) : ~Sending(s, k)

\* C25: a completion signal the dispatcher receives in the select it does for
\* a host of script S, under the timeout of S, was sent by a task of S.
C25_SignalOfAwaitedScript ==
    [][\A s \in ScriptIds : \A k \in HostIds(s) :
          (pc = "select" /\ task[s][k].pc = "l296" /\ task'[s][k].pc = "l298")
             => Head(pending) = s]_vars

\* C26: a host the document of a request shows with exit_status 0 is one on
\* which a task of the request ran the command and saw it exit zero.
C26_ZeroMeansExitedZero ==
    pc = "done" =>
        \A n \in 1..Len(body) :
            (body[n].k = "exit_status" /\ body[n].value = 0) =>
                \E s \in ScriptIds : \E k \in HostIds(s) :
                    /\ conf.Scripts[s].Name = body[n].name
                    /\ conf.Scripts[s].Credentials[k].Host = body[n].host
                    /\ \E t \in HostIds(s) :
                          task[s][t].c = k /\ task[s][t].outcome.kind = "ok"

\* C27: once BatchExecute has returned no task writes a result slot: no step
\* changes the request's configuration from then on, so the formatter reads
\* it with no task still writing.
C27_NoWriteAfterReturn ==
    [][Returned => (conf' = conf /\ writers' = writers)]_vars

====
